---- MODULE Spec2Model ----
(***************************************************************************)
(* Expense tracker: the expense service (internal/expenses) on top of the  *)
(* in-memory repository (mockRepository) that the repository's own tests   *)
(* use as the reference store.                                             *)
(*                                                                         *)
(* Spec      one caller at a time invokes the service operations.          *)
(* SpecConc  several goroutines run repository methods step by step        *)
(*           around the store's sync.RWMutex.                              *)
(***************************************************************************)
EXTENDS Integers, Sequences, FiniteSets, TLC

VARIABLES lastID, db, now, coll, call, hist, assigned, mux, procs

vars == <<lastID, db, now, coll, call, hist, assigned, mux, procs>>

(***************************************************************************)
(* Bounds of the model.                                                    *)
(***************************************************************************)
\* Create is not offered any more once lastID has reached MaxID.
MaxID == 2
\* Number of goroutines of SpecConc.
NumProcs == 2

(***************************************************************************)
(* int64.  TLC integers are 32 bits wide, so an int64 is kept as three     *)
(* limbs <<a2, a1, a0>> standing for a2 * 2^60 + a1 * 2^30 + a0 with       *)
(* 0 <= a0, a1 < 2^30 and -8 <= a2 <= 7 (two's complement, 4 + 30 + 30     *)
(* bits).  A "wide" value has the same shape with an unbounded a2 and is   *)
(* used for the mathematical sum.                                          *)
(***************************************************************************)
Limb == 2^30

I64(n) == IF n >= 0 THEN <<0, 0, n>> ELSE <<-1, Limb - 1, Limb + n>>

MaxInt64 == <<7, Limb - 1, Limb - 1>>

Zero64 == <<0, 0, 0>>

\* a + b without any wrap: the top limb is unbounded.
AddWide(a, b) ==
    LET s0 == a[3] + b[3]
        s1 == a[2] + b[2] + (s0 \div Limb)
    IN  <<a[1] + b[1] + (s1 \div Limb), s1 % Limb, s0 % Limb>>

\* Go's a + b on int64: the sum wraps around at 2^63.
Add64(a, b) ==
    LET w == AddWide(a, b)
    IN  <<((w[1] + 8) % 16) - 8, w[2], w[3]>>

\* a <= 0 on int64
LeqZero64(a) == a[1] < 0 \/ a = Zero64

(***************************************************************************)
(* time.Time.  An instant is kept as day (days since 1970-01-01 UTC) and   *)
(* sod (second of that day, UTC); off is the offset, in seconds east of    *)
(* UTC, of the location the value carries.  Year() and Month() are taken   *)
(* in that location, After() compares instants only.                       *)
(***************************************************************************)
SecondsPerDay == 24 * 60 * 60

Time(day, sod, off) == [day |-> day, sod |-> sod, off |-> off]

\* time.Unix(sec, 0), shown in the location with offset off
Unix(sec, off) == Time(sec \div SecondsPerDay, sec % SecondsPerDay, off)

\* time.Unix(0, 0)
unixEpoch == Unix(0, 0)

\* time.Time{} : January 1, year 1, 00:00:00 UTC
ZeroTime == Time(-719162, 0, 0)

\* t.After(u)
After(t, u) == t.day > u.day \/ (t.day = u.day /\ t.sod > u.sod)

\* t.UTC()
UTC(t) == Time(t.day, t.sod, 0)

\* The calendar day, counted from 1970-01-01, that t shows in its location.
LocalDay(t) == t.day + ((t.sod + t.off) \div SecondsPerDay)

\* Proleptic Gregorian date of a day number: <<year, month>>.
CivilYM(days) ==
    LET z   == days + 719468
        era == z \div 146097
        doe == z - era * 146097
        yoe == (doe - (doe \div 1460) + (doe \div 36524) - (doe \div 146096)) \div 365
        doy == doe - (365 * yoe + (yoe \div 4) - (yoe \div 100))
        mp  == (5 * doy + 2) \div 153
        m   == IF mp < 10 THEN mp + 3 ELSE mp - 9
    IN  <<yoe + era * 400 + (IF m <= 2 THEN 1 ELSE 0), m>>

\* A calendar position: what Year() and Month() of a time.Time give.
YM(year, month) == [year |-> year, month |-> month]

\* t.Year(), t.Month() of a stored or current time
YearMonthOf(t) == LET c == CivilYM(LocalDay(t)) IN YM(c[1], c[2])

\* time.Date(year, month, 1, 0, 0, 0, 0, time.UTC): the month is normalised
\* into 1..12 by carrying whole years; only Year() and Month() of the result
\* are ever used.
DateUTC(year, month) ==
    YM(year + ((month - 1) \div 12), ((month - 1) % 12) + 1)

MonthName ==
    <<"January", "February", "March", "April", "May", "June", "July",
      "August", "September", "October", "November", "December">>

(***************************************************************************)
(* Strings that are parsed are kept as sequences of one-character strings. *)
(***************************************************************************)
DigitValue ==
    [c \in {"0", "1", "2", "3", "4", "5", "6", "7", "8", "9"} |->
        CASE c = "0" -> 0 [] c = "1" -> 1 [] c = "2" -> 2 [] c = "3" -> 3
          [] c = "4" -> 4 [] c = "5" -> 5 [] c = "6" -> 6 [] c = "7" -> 7
          [] c = "8" -> 8 [] c = "9" -> 9]

RECURSIVE DigitsValue(_, _)
\* value of a run of decimal digits, acc being the value read so far
DigitsValue(s, acc) ==
    IF s = <<>> THEN acc
    ELSE DigitsValue(Tail(s), 10 * acc + DigitValue[Head(s)])

AllDigits(s) == s # <<>> /\ \A i \in 1..Len(s) : s[i] \in DOMAIN DigitValue

\* strconv.Atoi: an optional sign followed by at least one decimal digit
Atoi(s) ==
    LET signed == s # <<>> /\ Head(s) \in {"+", "-"}
        digits == IF signed THEN Tail(s) ELSE s
    IN  IF ~AllDigits(digits)
        THEN [ok |-> FALSE, val |-> 0]
        ELSE [ok |-> TRUE,
              val |-> IF signed /\ Head(s) = "-"
                      THEN 0 - DigitsValue(digits, 0)
                      ELSE DigitsValue(digits, 0)]

\* strings.Cut(s, "-")
Cut(s) ==
    LET hits == {i \in 1..Len(s) : s[i] = "-"}
    IN  IF hits = {}
        THEN [before |-> s, after |-> <<>>, found |-> FALSE]
        ELSE LET i == CHOOSE k \in hits : \A j \in hits : k <= j
             IN  [before |-> SubSeq(s, 1, i - 1),
                  after  |-> SubSeq(s, i + 1, Len(s)),
                  found  |-> TRUE]

(***************************************************************************)
(* Errors are named by the Go value or type that is returned; "nil" is no  *)
(* error.                                                                  *)
(***************************************************************************)
ValidationErrors ==
    {"ErrInvalidDescription", "ErrInvalidAmount", "ErrInvalidOccuredAtTime"}

checkDescription(description) ==
    IF description = "" THEN "ErrInvalidDescription" ELSE "nil"

\* checkAmount with "amount < 0" for "amount <= 0"
checkAmountAcceptsZero(amount) ==
    IF amount[1] < 0 THEN "ErrInvalidAmount" ELSE "nil"

checkAmount(amount) ==
    IF LeqZero64(amount) THEN "ErrInvalidAmount" ELSE "nil"

checkOccuredAt(occ) ==
    IF ~After(occ, unixEpoch) THEN "ErrInvalidOccuredAtTime" ELSE "nil"

(***************************************************************************)
(* Expense, and the in-memory repository: lastID and db, a map from id to  *)
(* the stored record.  A method under Spec runs from Lock to Unlock        *)
(* without interruption; each yields the new lastID and db and what it     *)
(* returns (rec is a sequence of no or one record, for a nil pointer).     *)
(***************************************************************************)
Expense(id, amount, occuredAt, createdAt, description) ==
    [ID               |-> id,
     Amount           |-> amount,
     ExpenseOccuredAt |-> occuredAt,
     RecordCreatedAt  |-> createdAt,
     Description      |-> description]

RepoResult(l, d, rec, recs, err) ==
    [lastID |-> l, db |-> d, rec |-> rec, recs |-> recs, err |-> err]

Put(d, id, exp) ==
    [i \in DOMAIN d \cup {id} |-> IF i = id THEN exp ELSE d[i]]

Remove(d, id) == [i \in DOMAIN d \ {id} |-> d[i]]

GetByID(l, d, id) ==
    IF id \notin DOMAIN d
    THEN RepoResult(l, d, <<>>, <<>>, "sql.ErrNoRows")
    ELSE RepoResult(l, d, <<d[id]>>, <<>>, "nil")

RECURSIVE RangeRecords(_, _, _)
\* the loop of GetAll: i runs from its start value up to n - 1
RangeRecords(i, n, d) ==
    IF i >= n THEN <<>>
    ELSE (IF i \in DOMAIN d THEN <<d[i]>> ELSE <<>>) \o RangeRecords(i + 1, n, d)

GetAll(l, d) ==
    IF l = 0
    THEN RepoResult(l, d, <<>>, <<>>, "sql.ErrNoRows")
    ELSE RepoResult(l, d, <<>>, RangeRecords(0, l, d), "nil")

\* Create that files the record under the id before the increment
CreateUnderOldID(l, d, exp, t) ==
    LET newID  == l + 1
        stored == [exp EXCEPT !.ID = newID, !.RecordCreatedAt = t]
    IN  RepoResult(newID, Put(d, l, stored), <<stored>>, <<>>, "nil")

Create(l, d, exp, t) ==
    LET newID  == l + 1
        stored == [exp EXCEPT !.ID = newID, !.RecordCreatedAt = t]
    IN  RepoResult(newID, Put(d, newID, stored), <<stored>>, <<>>, "nil")

\* Update that stores the record before it checks that the id exists
UpdateStoresFirst(l, d, exp) ==
    IF exp.ID \notin DOMAIN d
    THEN RepoResult(l, Put(d, exp.ID, exp), <<>>, <<>>, "ErrNoRowsUpdated")
    ELSE RepoResult(l, Put(d, exp.ID, exp), <<>>, <<>>, "nil")

Update(l, d, exp) ==
    IF exp.ID \notin DOMAIN d
    THEN RepoResult(l, d, <<>>, <<>>, "ErrNoRowsUpdated")
    ELSE RepoResult(l, Put(d, exp.ID, exp), <<>>, <<>>, "nil")

Delete(l, d, id) ==
    IF l = 0 \/ id \notin DOMAIN d
    THEN RepoResult(l, d, <<>>, <<>>, "ErrNoRowsDeleted")
    ELSE RepoResult(l, Remove(d, id), <<>>, <<>>, "nil")

(***************************************************************************)
(* The service.  An operation yields an outcome: the repository state it   *)
(* leaves, what it returns (err; exp, exps and summary are sequences of no *)
(* or one value where Go has a nil pointer or a value), and repo, the      *)
(* calls it made on the repository, in order.                              *)
(***************************************************************************)
SummaryTimeRange ==
    {"AllExpenses", "ThisMonth", "CustomMonth", "ThisYear", "CustomYear",
     "CustomYearMonthRange"}

ExpenseSummary(label, total) == [SummaryTimeRange |-> label, Total |-> total]

RepoCall(method, exp, id) == [method |-> method, exp |-> exp, id |-> id]

\* an operation that returns err before it reaches the repository
Rejected(err, errArg) ==
    [lastID |-> lastID, db |-> db, err |-> err, errArg |-> errArg,
     exp |-> <<>>, exps |-> <<>>, summary |-> <<>>, repo |-> <<>>]

\* an operation that returns what the repository call r returned
Delegated(r, repoCall) ==
    [lastID |-> r.lastID, db |-> r.db, err |-> r.err, errArg |-> <<>>,
     exp |-> r.rec, exps |-> r.recs, summary |-> <<>>, repo |-> <<repoCall>>]

\* NewExpense that checks the amount before the description
NewExpenseAmountFirst(occuredAt, description, amount) ==
    IF checkAmount(amount) # "nil"
    THEN Rejected(checkAmount(amount), <<>>)
    ELSE IF checkDescription(description) # "nil"
    THEN Rejected(checkDescription(description), <<>>)
    ELSE IF checkOccuredAt(occuredAt) # "nil"
    THEN Rejected(checkOccuredAt(occuredAt), <<>>)
    ELSE LET exp == Expense(0, amount, occuredAt, ZeroTime, description)
         IN  Delegated(Create(lastID, db, exp, now),
                       RepoCall("Create", <<exp>>, 0))

NewExpense(occuredAt, description, amount) ==
    IF checkDescription(description) # "nil"
    THEN Rejected(checkDescription(description), <<>>)
    ELSE IF checkAmount(amount) # "nil"
    THEN Rejected(checkAmount(amount), <<>>)
    ELSE IF checkOccuredAt(occuredAt) # "nil"
    THEN Rejected(checkOccuredAt(occuredAt), <<>>)
    ELSE LET exp == Expense(0, amount, occuredAt, ZeroTime, description)
         IN  Delegated(Create(lastID, db, exp, now),
                       RepoCall("Create", <<exp>>, 0))

GetAllExpenses ==
    Delegated(GetAll(lastID, db), RepoCall("GetAll", <<>>, 0))

GetExpenseByID(id) ==
    IF id <= 0
    THEN Rejected("ErrInvalidID", <<>>)
    ELSE Delegated(GetByID(lastID, db, id), RepoCall("GetByID", <<>>, id))

UpdateExpense(id, occuredAt, description, amount) ==
    IF id <= 0
    THEN Rejected("ErrInvalidID", <<>>)
    ELSE IF checkDescription(description) # "nil"
    THEN Rejected(checkDescription(description), <<>>)
    ELSE IF checkAmount(amount) # "nil"
    THEN Rejected(checkAmount(amount), <<>>)
    ELSE IF checkOccuredAt(occuredAt) # "nil"
    THEN Rejected(checkOccuredAt(occuredAt), <<>>)
    ELSE LET exp == Expense(id, amount, occuredAt, ZeroTime, description)
         IN  Delegated(Update(lastID, db, exp), RepoCall("Update", <<exp>>, id))

\* DeleteExpense with "id < 0" for "id <= 0"
DeleteExpenseAcceptsZero(id) ==
    IF id < 0
    THEN Rejected("ErrInvalidID", <<>>)
    ELSE Delegated(Delete(lastID, db, id), RepoCall("Delete", <<>>, id))

DeleteExpense(id) ==
    IF id <= 0
    THEN Rejected("ErrInvalidID", <<>>)
    ELSE Delegated(Delete(lastID, db, id), RepoCall("Delete", <<>>, id))

\* timeA and timeB are given by their Year() and Month()
isWrongMonth(timeA, timeB) ==
    timeA.year # timeB.year \/ timeA.month # timeB.month

isWrongYear(timeA, timeB) == timeA.year # timeB.year

\* err "fmt.Errorf" is the error built with fmt.Errorf, "strconv.NumError"
\* the one Atoi returns; errArg is the string the error quotes.
makeCustomMonth(str) ==
    LET cut      == Cut(str)
        monthStr == cut.before
        yearStr  == cut.after
        month    == Atoi(monthStr)
        year     == Atoi(yearStr)
    IN  IF ~cut.found
        THEN [err |-> "fmt.Errorf", errArg |-> str, time |-> YM(1, 1)]
        ELSE IF ~month.ok
        THEN [err |-> "strconv.NumError", errArg |-> monthStr, time |-> YM(1, 1)]
        ELSE IF ~year.ok
        THEN [err |-> "strconv.NumError", errArg |-> yearStr, time |-> YM(1, 1)]
        ELSE [err |-> "nil", errArg |-> <<>>,
              time |-> DateUTC(year.val, month.val)]

makeCustomYear(str) ==
    LET year == Atoi(str)
    IN  IF ~year.ok
        THEN [err |-> "strconv.NumError", errArg |-> str, time |-> YM(1, 1)]
        ELSE [err |-> "nil", errArg |-> <<>>, time |-> DateUTC(year.val, 1)]

\* slices.DeleteFunc(exps, func(exp) { return isWrong(exp.ExpenseOccuredAt, ref) })
DeleteWrongMonth(exps, ref) ==
    SelectSeq(exps, LAMBDA exp :
        ~isWrongMonth(YearMonthOf(exp.ExpenseOccuredAt), ref))

DeleteWrongYear(exps, ref) ==
    SelectSeq(exps, LAMBDA exp :
        ~isWrongYear(YearMonthOf(exp.ExpenseOccuredAt), ref))

RECURSIVE SumAmounts(_, _)
\* the loop "expenseSum += exp.Amount", expenseSum being the sum so far
SumAmounts(exps, expenseSum) ==
    IF exps = <<>> THEN expenseSum
    ELSE SumAmounts(Tail(exps), Add64(expenseSum, Head(exps).Amount))

\* a summary whose filter is applied to the stored records themselves
SummarizedInStore(r, label, exps) ==
    [lastID |-> r.lastID,
     db |-> [i \in {exps[k].ID : k \in 1..Len(exps)} |-> r.db[i]],
     err |-> "nil", errArg |-> <<>>,
     exp |-> <<>>, exps |-> <<>>,
     summary |-> <<ExpenseSummary(label, SumAmounts(exps, Zero64))>>,
     repo |-> <<RepoCall("GetAll", <<>>, 0)>>]

\* A label is the sequence of the pieces it is formatted from; the empty
\* string is <<>>.
Summarized(r, label, exps) ==
    [lastID |-> r.lastID, db |-> r.db, err |-> "nil", errArg |-> <<>>,
     exp |-> <<>>, exps |-> <<>>,
     summary |-> <<ExpenseSummary(label, SumAmounts(exps, Zero64))>>,
     repo |-> <<RepoCall("GetAll", <<>>, 0)>>]

SummaryFailed(r, err, errArg) ==
    [lastID |-> r.lastID, db |-> r.db, err |-> err, errArg |-> errArg,
     exp |-> <<>>, exps |-> <<>>, summary |-> <<>>,
     repo |-> <<RepoCall("GetAll", <<>>, 0)>>]

SummarizeExpenses(kind, modifier) ==
    LET r           == GetAll(lastID, db)
        nowUTC      == YearMonthOf(UTC(now))
        customMonth == makeCustomMonth(modifier)
        customYear  == makeCustomYear(modifier)
    IN  IF r.err # "nil" THEN SummaryFailed(r, r.err, <<>>)
        ELSE CASE kind = "AllExpenses" ->
                    Summarized(r, <<>>, r.recs)
               [] kind = "ThisMonth" ->
                    Summarized(r, <<"This Month">>,
                               DeleteWrongMonth(r.recs, nowUTC))
               [] kind = "CustomMonth" ->
                    IF customMonth.err # "nil"
                    THEN SummaryFailed(r, customMonth.err, customMonth.errArg)
                    ELSE Summarized(r,
                            <<"Custom Month: ",
                              MonthName[customMonth.time.month], " of ",
                              customMonth.time.year>>,
                            DeleteWrongMonth(r.recs, customMonth.time))
               [] kind = "ThisYear" ->
                    Summarized(r, <<"This Year">>,
                               DeleteWrongMonth(r.recs, nowUTC))
               [] kind = "CustomYear" ->
                    IF customYear.err # "nil"
                    THEN SummaryFailed(r, customYear.err, customYear.errArg)
                    ELSE Summarized(r,
                            <<"Custom Year: ", customYear.time.year>>,
                            DeleteWrongYear(r.recs, customYear.time))
               [] kind = "CustomYearMonthRange" ->
                    Summarized(r, <<>>, r.recs)

(***************************************************************************)
(* Inputs of the operations.                                               *)
(***************************************************************************)
DescriptionInputs == {"", "a", "b"}

AmountInputs == {I64(-1), Zero64, I64(1), MaxInt64}

\* 1969-12-31T23:59:59Z, the epoch, 1970-01-01T00:00:01Z, 2025-10-15T12:00:00Z
OccuredAtInputs ==
    {Unix(-1, 0), unixEpoch, Unix(1, 0), Unix(1760529600, 0)}

IDInputs == (0 - 1)..(MaxID + 1)

\* "", "2025-10", "10-2025", "2025-13", "2025", "1969", "1969-09"
ModifierInputs ==
    {<<>>,
     <<"2", "0", "2", "5", "-", "1", "0">>,
     <<"1", "0", "-", "2", "0", "2", "5">>,
     <<"2", "0", "2", "5", "-", "1", "3">>,
     <<"2", "0", "2", "5">>,
     <<"1", "9", "6", "9">>,
     <<"1", "9", "6", "9", "-", "0", "9">>}

\* What time.Now() may return: 2025-10-16T00:30:00Z or 2025-11-01T00:00:00Z
\* (the process runs with time.Local = UTC).
ClockInstants == {Unix(1760574600, 0), Unix(1761955200, 0)}

(***************************************************************************)
(* State.                                                                  *)
(*   lastID, db  the fields of the repository                              *)
(*   now         what time.Now() returns during the behaviour              *)
(*   coll        the documents of the collection "expenses" of the         *)
(*               MongoDBRespository, in the order of insertion             *)
(*   call        the service call that has just returned, with its         *)
(*               arguments, whether its id named a stored record when it   *)
(*               was made (known) and what it returned, until the caller   *)
(*               has taken the result; NoCall between calls                *)
(*               under SpecHTTP also the handler that served the request,  *)
(*               the request and the response written                      *)
(*   hist        for every id that NewExpense has returned: what has been  *)
(*               done with the id since (state), the record as returned    *)
(*               for as long as the id is neither updated nor deleted      *)
(*               (rec), and the createdAt it was returned with             *)
(*   assigned    the ids Create has assigned, in the order of assignment   *)
(*   mux, procs  the RWMutex and the goroutines of SpecConc                *)
(***************************************************************************)
NoCall ==
    [op |-> "none", id |-> 0, occuredAt |-> ZeroTime, description |-> "",
     amount |-> Zero64, kind |-> "AllExpenses", modifier |-> <<>>,
     known |-> FALSE,
     err |-> "nil", errArg |-> <<>>, exp |-> <<>>, exps |-> <<>>,
     summary |-> <<>>, repo |-> <<>>,
     handler |-> "none", request |-> <<>>, response |-> <<>>]

\* The call c, made in the current state, with the outcome o.
Returned(c, o) ==
    [c EXCEPT !.known = c.id \in DOMAIN db,
              !.err = o.err, !.errArg = o.errArg, !.exp = o.exp,
              !.exps = o.exps, !.summary = o.summary, !.repo = o.repo]

\* A goroutine that runs no repository method.  Otherwise op is the method,
\* pc the place it has reached, id and exp its arguments (exp is also the
\* record it is about to return) and err the error it is about to return.
Idle == [op |-> "none", pc |-> "idle", id |-> 0, exp |-> <<>>, err |-> "nil"]

Init ==
    /\ lastID = 0
    /\ db = <<>>
    /\ now \in ClockInstants
    /\ coll = <<>>
    /\ call = NoCall
    /\ hist = <<>>
    /\ assigned = <<>>
    /\ mux = [writer |-> 0, readers |-> {}]
    /\ procs = [p \in 1..NumProcs |-> Idle]

\* The step of one service call c whose outcome is o.
Perform(c, o) ==
    /\ call.op = "none"
    /\ o.lastID <= MaxID
    /\ lastID' = o.lastID
    /\ db' = o.db
    /\ call' = Returned(c, o)
    /\ hist' =
         IF o.err # "nil" THEN hist
         ELSE CASE c.op = "NewExpense" ->
                     Put(hist, o.exp[1].ID,
                         [state |-> "fresh", rec |-> o.exp,
                          createdAt |-> o.exp[1].RecordCreatedAt])
                [] c.op = "UpdateExpense" /\ c.id \in DOMAIN hist ->
                     [hist EXCEPT ![c.id].state = "updated", ![c.id].rec = <<>>]
                [] c.op = "DeleteExpense" /\ c.id \in DOMAIN hist ->
                     [hist EXCEPT ![c.id].state = "deleted", ![c.id].rec = <<>>]
                [] OTHER -> hist
    /\ assigned' =
         IF c.op = "NewExpense" /\ o.err = "nil"
         THEN Append(assigned, o.exp[1].ID)
         ELSE assigned
    /\ UNCHANGED <<now, coll, mux, procs>>

CallNewExpense ==
    \E occuredAt \in OccuredAtInputs, description \in DescriptionInputs,
       amount \in AmountInputs :
        Perform([NoCall EXCEPT !.op = "NewExpense", !.occuredAt = occuredAt,
                               !.description = description, !.amount = amount],
                NewExpense(occuredAt, description, amount))

CallGetAllExpenses ==
    Perform([NoCall EXCEPT !.op = "GetAllExpenses"], GetAllExpenses)

CallGetExpenseByID ==
    \E id \in IDInputs :
        Perform([NoCall EXCEPT !.op = "GetExpenseByID", !.id = id],
                GetExpenseByID(id))

CallUpdateExpense ==
    \E id \in IDInputs, occuredAt \in OccuredAtInputs,
       description \in DescriptionInputs, amount \in AmountInputs :
        Perform([NoCall EXCEPT !.op = "UpdateExpense", !.id = id,
                               !.occuredAt = occuredAt,
                               !.description = description, !.amount = amount],
                UpdateExpense(id, occuredAt, description, amount))

CallDeleteExpense ==
    \E id \in IDInputs :
        Perform([NoCall EXCEPT !.op = "DeleteExpense", !.id = id],
                DeleteExpense(id))

CallSummarizeExpenses ==
    \E kind \in SummaryTimeRange, modifier \in ModifierInputs :
        Perform([NoCall EXCEPT !.op = "SummarizeExpenses", !.kind = kind,
                               !.modifier = modifier],
                SummarizeExpenses(kind, modifier))

\* The caller takes the result; the next call can start.
Return ==
    /\ call.op # "none"
    /\ call' = NoCall
    /\ UNCHANGED <<lastID, db, now, coll, hist, assigned, mux, procs>>

Next ==
    \/ CallNewExpense
    \/ CallGetAllExpenses
    \/ CallGetExpenseByID
    \/ CallUpdateExpense
    \/ CallDeleteExpense
    \/ CallSummarizeExpenses
    \/ Return

Spec == Init /\ [][Next]_vars

(***************************************************************************)
(* SpecConc: goroutines 1..NumProcs call the methods of one mockRepository *)
(* concurrently.  mux is its sync.RWMutex: writer is the goroutine that    *)
(* has called Lock and not yet Unlock (0: none), readers the goroutines    *)
(* that hold the read lock.  Lock takes the writer slot, which keeps new   *)
(* readers out, and then waits for the readers inside to leave.            *)
(***************************************************************************)
Procs == 1..NumProcs

\* the records handed to Create: nil or an expense
CreateInputs == {<<>>, <<Expense(0, I64(1), Unix(1, 0), ZeroTime, "a")>>}

\* the records handed to Update: nil or an expense with the id to update
UpdateInputs ==
    {<<>>} \cup
    {<<Expense(id, MaxInt64, Unix(1760529600, 0), ZeroTime, "b")>> : id \in 1..MaxID}

\* a Lock and an RLock that never wait for a writer
WriterAlwaysFree(m) == TRUE

\* no goroutine has called Lock without having called Unlock since
WriterFree(m) == m.writer = 0

\* no goroutine holds the read lock
ReadersDrained(m) == m.readers = {}

Goto(p, proc) == procs' = [procs EXCEPT ![p] = proc]

At(p, op, pc) == procs[p].op = op /\ procs[p].pc = pc

\* the Create calls that have started and not yet taken their id
PendingCreates ==
    {q \in Procs : /\ procs[q].op = "Create"
                   /\ procs[q].pc \in {"entry", "Lock", "LockWait", "locked"}}

ConcCallCreate(p) ==
    /\ At(p, "none", "idle")
    /\ lastID + Cardinality(PendingCreates) < MaxID
    /\ \E exp \in CreateInputs :
         Goto(p, [Idle EXCEPT !.op = "Create", !.pc = "entry", !.exp = exp])
    /\ UNCHANGED <<lastID, db, now, coll, call, hist, assigned, mux>>

ConcCallUpdate(p) ==
    /\ At(p, "none", "idle")
    /\ \E exp \in UpdateInputs :
         Goto(p, [Idle EXCEPT !.op = "Update", !.pc = "entry", !.exp = exp])
    /\ UNCHANGED <<lastID, db, now, coll, call, hist, assigned, mux>>

ConcCallDelete(p) ==
    /\ At(p, "none", "idle")
    /\ \E id \in 1..MaxID :
         Goto(p, [Idle EXCEPT !.op = "Delete", !.pc = "Lock", !.id = id])
    /\ UNCHANGED <<lastID, db, now, coll, call, hist, assigned, mux>>

ConcCallGetByID(p) ==
    /\ At(p, "none", "idle")
    /\ \E id \in 1..MaxID :
         Goto(p, [Idle EXCEPT !.op = "GetByID", !.pc = "RLock", !.id = id])
    /\ UNCHANGED <<lastID, db, now, coll, call, hist, assigned, mux>>

ConcCallGetAll(p) ==
    /\ At(p, "none", "idle")
    /\ Goto(p, [Idle EXCEPT !.op = "GetAll", !.pc = "entry"])
    /\ UNCHANGED <<lastID, db, now, coll, call, hist, assigned, mux>>

\* Create and Update: "if exp == nil { return ..., ErrNilPointer }"
CheckNil(p) ==
    /\ procs[p].op \in {"Create", "Update"}
    /\ procs[p].pc = "entry"
    /\ IF procs[p].exp = <<>>
       THEN Goto(p, Idle)
       ELSE Goto(p, [procs[p] EXCEPT !.pc = "Lock"])
    /\ UNCHANGED <<lastID, db, now, coll, call, hist, assigned, mux>>

\* GetAll: "if r.lastID == 0 { return nil, ... }", before any lock is taken
GetAllCheckEmpty(p) ==
    /\ At(p, "GetAll", "entry")
    /\ IF lastID = 0
       THEN Goto(p, Idle)
       ELSE Goto(p, [procs[p] EXCEPT !.pc = "RLock"])
    /\ UNCHANGED <<lastID, db, now, coll, call, hist, assigned, mux>>

\* r.mux.Lock(), first half: become the writer
Lock(p) ==
    /\ procs[p].pc = "Lock"
    /\ WriterFree(mux)
    /\ mux' = [mux EXCEPT !.writer = p]
    /\ Goto(p, [procs[p] EXCEPT !.pc = "LockWait"])
    /\ UNCHANGED <<lastID, db, now, coll, call, hist, assigned>>

\* r.mux.Lock(), second half: the readers have left, Lock returns
LockWait(p) ==
    /\ procs[p].pc = "LockWait"
    /\ ReadersDrained(mux)
    /\ Goto(p, [procs[p] EXCEPT !.pc = "locked"])
    /\ UNCHANGED <<lastID, db, now, coll, call, hist, assigned, mux>>

\* r.mux.RLock()
RLock(p) ==
    /\ procs[p].pc = "RLock"
    /\ WriterFree(mux)
    /\ mux' = [mux EXCEPT !.readers = @ \cup {p}]
    /\ Goto(p, [procs[p] EXCEPT !.pc = "rlocked"])
    /\ UNCHANGED <<lastID, db, now, coll, call, hist, assigned>>

\* Create: "r.lastID += 1"
CreateIncrement(p) ==
    /\ At(p, "Create", "locked")
    /\ lastID' = lastID + 1
    /\ Goto(p, [procs[p] EXCEPT !.pc = "newID"])
    /\ UNCHANGED <<db, now, coll, call, hist, assigned, mux>>

\* Create: "newID := r.lastID; exp.ID = newID;
\* exp.RecordCreatedAt = time.Now(); r.db[newID] = exp"
CreateStore(p) ==
    /\ At(p, "Create", "newID")
    /\ LET newID  == lastID
           stored == [procs[p].exp[1] EXCEPT !.ID = newID,
                                             !.RecordCreatedAt = now]
       IN  /\ assigned' = Append(assigned, newID)
           /\ db' = Put(db, newID, stored)
           /\ Goto(p, [procs[p] EXCEPT !.pc = "Unlock", !.exp = <<stored>>])
    /\ UNCHANGED <<lastID, now, coll, call, hist, mux>>

\* Update, from the check that the id exists to "r.db[exp.ID] = exp"
UpdateBody(p) ==
    /\ At(p, "Update", "locked")
    /\ LET r == Update(lastID, db, procs[p].exp[1])
       IN  /\ db' = r.db
           /\ Goto(p, [procs[p] EXCEPT !.pc = "Unlock", !.err = r.err])
    /\ UNCHANGED <<lastID, now, coll, call, hist, assigned, mux>>

\* Delete, from the check that the id exists to "delete(r.db, id)"
DeleteBody(p) ==
    /\ At(p, "Delete", "locked")
    /\ LET r == Delete(lastID, db, procs[p].id)
       IN  /\ db' = r.db
           /\ Goto(p, [procs[p] EXCEPT !.pc = "Unlock", !.err = r.err])
    /\ UNCHANGED <<lastID, now, coll, call, hist, assigned, mux>>

\* GetByID: "record, ok := r.db[id]"
GetByIDBody(p) ==
    /\ At(p, "GetByID", "rlocked")
    /\ LET r == GetByID(lastID, db, procs[p].id)
       IN  Goto(p, [procs[p] EXCEPT !.pc = "RUnlock", !.exp = r.rec,
                                    !.err = r.err])
    /\ UNCHANGED <<lastID, db, now, coll, call, hist, assigned, mux>>

\* GetAll: the loop over "range r.lastID"
GetAllBody(p) ==
    /\ At(p, "GetAll", "rlocked")
    /\ Goto(p, [procs[p] EXCEPT !.pc = "RUnlock"])
    /\ UNCHANGED <<lastID, db, now, coll, call, hist, assigned, mux>>

\* a return that leaves the write lock held
ReturnHoldingLock(p) ==
    /\ procs[p].pc = "Unlock"
    /\ Goto(p, Idle)
    /\ UNCHANGED <<lastID, db, now, coll, call, hist, assigned, mux>>

\* the deferred r.mux.Unlock(); the method returns
Unlock(p) ==
    /\ procs[p].pc = "Unlock"
    /\ mux' = [mux EXCEPT !.writer = IF @ = p THEN 0 ELSE @]
    /\ Goto(p, Idle)
    /\ UNCHANGED <<lastID, db, now, coll, call, hist, assigned>>

\* the deferred r.mux.RUnlock(); the method returns
RUnlock(p) ==
    /\ procs[p].pc = "RUnlock"
    /\ mux' = [mux EXCEPT !.readers = @ \ {p}]
    /\ Goto(p, Idle)
    /\ UNCHANGED <<lastID, db, now, coll, call, hist, assigned>>

\* The fields of the repository that the next statement of goroutine p reads
\* and writes: GetAll reads lastID in its check for an empty repository and
\* lastID and db in its loop; GetByID reads db; Create reads and writes
\* lastID, then reads it and writes db; Update and Delete read db (Delete
\* lastID as well) and write it when the record exists.
Accesses(p) ==
    LET pr == procs[p]
        rw(reads, writes) == [reads |-> reads, writes |-> writes]
    IN  CASE pr.op = "GetAll" /\ pr.pc = "entry" -> rw({"lastID"}, {})
          [] pr.op = "GetAll" /\ pr.pc = "rlocked" -> rw({"lastID", "db"}, {})
          [] pr.op = "GetByID" /\ pr.pc = "rlocked" -> rw({"db"}, {})
          [] pr.op = "Create" /\ pr.pc = "locked" -> rw({"lastID"}, {"lastID"})
          [] pr.op = "Create" /\ pr.pc = "newID" -> rw({"lastID"}, {"db"})
          [] pr.op = "Update" /\ pr.pc = "locked" ->
                rw({"db"}, IF pr.exp[1].ID \in DOMAIN db THEN {"db"} ELSE {})
          [] pr.op = "Delete" /\ pr.pc = "locked" ->
                rw({"db", "lastID"},
                   IF lastID # 0 /\ pr.id \in DOMAIN db THEN {"db"} ELSE {})
          [] OTHER -> rw({}, {})

\* goroutine p has returned from Lock and not yet called Unlock
HoldsLock(p) ==
    mux.writer = p /\ procs[p].pc \in {"locked", "newID", "Unlock"}

\* goroutine p has returned from RLock and not yet called RUnlock
HoldsRLock(p) == p \in mux.readers

NextConc ==
    \E p \in Procs :
        \/ ConcCallCreate(p)
        \/ ConcCallUpdate(p)
        \/ ConcCallDelete(p)
        \/ ConcCallGetByID(p)
        \/ ConcCallGetAll(p)
        \/ CheckNil(p)
        \/ GetAllCheckEmpty(p)
        \/ Lock(p)
        \/ LockWait(p)
        \/ RLock(p)
        \/ CreateIncrement(p)
        \/ CreateStore(p)
        \/ UpdateBody(p)
        \/ DeleteBody(p)
        \/ GetByIDBody(p)
        \/ GetAllBody(p)
        \/ Unlock(p)
        \/ RUnlock(p)

SpecConc == Init /\ [][NextConc]_vars

\* the statements of a method that goroutine p has called, apart from the
\* calls of Lock and RLock
Proceed(p) ==
    \/ CheckNil(p)
    \/ GetAllCheckEmpty(p)
    \/ LockWait(p)
    \/ CreateIncrement(p)
    \/ CreateStore(p)
    \/ UpdateBody(p)
    \/ DeleteBody(p)
    \/ GetByIDBody(p)
    \/ GetAllBody(p)
    \/ Unlock(p)
    \/ RUnlock(p)

\* SpecConc under fair scheduling: a goroutine that can run does run, and a
\* goroutine that waits in Lock or RLock gets the lock when it is handed on
\* often enough (a sync.RWMutex keeps new readers out while a writer waits,
\* Unlock wakes the waiting readers, and a sync.Mutex in starvation mode
\* hands the lock to the goroutine that has waited longest).  Whether a
\* goroutine calls a method at all is left to it.
SpecConcFair ==
    /\ SpecConc
    /\ \A p \in Procs :
         /\ WF_vars(Proceed(p))
         /\ SF_vars(Lock(p))
         /\ SF_vars(RLock(p))

(***************************************************************************)
(* SpecHTTP: the handlers serve requests, one at a time, through the       *)
(* service and the repository.  Three sets of handlers are in the sources: *)
(* ExpenseHandler on net/http ("HTTP"), GinHandler with ginValidateID      *)
(* ("Gin") and the GinHandler that only converts the id ("Gin0"); the two  *)
(* GinHandlers have the same CreateExpense and UpdateExpense.              *)
(*                                                                         *)
(* A request is [id, json, body, fault]: id the path parameter, json       *)
(* whether Content-Type holds application/json, body the JSON body: kind   *)
(* "garbage" (not decodable into the request struct), "null" or "object"   *)
(* with the fields as decoded (a missing field is the zero value).  fault  *)
(* is <<>> or <<text>>: the repository call the service makes, if it       *)
(* makes one, fails with a storage error of that text and changes nothing. *)
(*                                                                         *)
(* A response is [status, body, panic, headers]: the status written first  *)
(* (0: none), the payloads written, whether the handler panicked, in which *)
(* case net/http closes the connection, and the number of WriteHeader      *)
(* calls made.  closeErr of a request says that r.Body.Close() returns an  *)
(* error.                                                                  *)
(***************************************************************************)
NoResponse == [status |-> 0, body |-> <<>>, panic |-> FALSE, headers |-> 0]

Panicked == [status |-> 0, body |-> <<>>, panic |-> TRUE, headers |-> 0]

\* http.StatusText
StatusText(code) ==
    CASE code = 400 -> "Bad Request"
      [] code = 404 -> "Not Found"
      [] code = 500 -> "Internal Server Error"
      [] OTHER -> ""

\* The repository call of the service outcome o fails with the storage
\* error of the fault; the service hands the error on as it is.
WithFault(o, fault) ==
    IF fault = <<>> \/ o.repo = <<>> THEN o
    ELSE [Rejected("QueryError", fault) EXCEPT !.repo = o.repo]

\* err.Error(): the text of a storage error, else the error's own message
ErrorText(o) == IF o.err = "QueryError" THEN o.errArg[1] ELSE o.err

\* what a handler did: the service call c it made (NoServiceCall if none),
\* the outcome o of that call and the response it wrote
Handled(c, o, response) == [c |-> c, o |-> o, response |-> response]

NoServiceCall == [NoCall EXCEPT !.op = "NoServiceCall"]

Refused(response) == Handled(NoServiceCall, Rejected("nil", <<>>), response)

expenseToResponse(exp) ==
    [id |-> exp.ID, created_at |-> exp.RecordCreatedAt,
     occured_at |-> exp.ExpenseOccuredAt, description |-> exp.Description,
     amount |-> exp.Amount]

\* ExpenseHandler.sendErrors: the first WriteHeader sets the status, every
\* Write adds to the body
sendErrors(w, code, issues) ==
    IF StatusText(code) = ""
    THEN [w EXCEPT !.status = IF @ = 0 THEN 500 ELSE @, !.headers = @ + 1]
    ELSE LET payload ==
                 [code |-> code,
                  issues |-> IF issues = <<>> THEN <<StatusText(code)>>
                             ELSE issues]
         IN  [w EXCEPT !.status = IF @ = 0 THEN code ELSE @,
                       !.headers = @ + 1,
                       !.body = Append(@, payload)]

\* ExpenseHandler.sendJSON
sendJSON(w, status, responsePayload) ==
    [w EXCEPT !.status = IF @ = 0 THEN status ELSE @,
              !.headers = @ + 1,
              !.body = Append(@, responsePayload)]

\* w.WriteHeader(status)
WriteHeader(w, status) ==
    [w EXCEPT !.status = IF @ = 0 THEN status ELSE @, !.headers = @ + 1]

\* validateID of the net/http handlers
validateID(idStr) ==
    IF idStr = <<>>
    THEN [id |-> 0, err |-> "id in path is missing"]
    ELSE IF ~Atoi(idStr).ok
    THEN [id |-> 0, err |-> "id in path is not valid id"]
    ELSE [id |-> Atoi(idStr).val, err |-> "nil"]

\* CreateExpenseRequest.validate: the issues found, in order
validateCreate(c) ==
    (IF LeqZero64(c.amount)
     THEN <<"field 'amount' is negative, missing, or zero">> ELSE <<>>)
    \o (IF c.occuredAt = ZeroTime
        THEN <<"field 'occured_at' is missing or empty">> ELSE <<>>)
    \o (IF c.description = ""
        THEN <<"field 'description' is missing or empty">> ELSE <<>>)

\* UpdateExpenseRequest.validate
validateUpdate(u) ==
    (IF u.id <= 0 THEN <<"id is not valid">> ELSE <<>>) \o validateCreate(u)

\* the request struct a JSON null leaves: every field the zero value
ZeroBody ==
    [kind |-> "object", id |-> 0, amount |-> Zero64, occuredAt |-> ZeroTime,
     description |-> ""]

\* a handler that takes every Content-Type
headersAlwaysValid(req) == TRUE

\* ExpenseHandler.headersAreValid
headersAreValid(req) == req.json

ContentTypeIssue == "'Content-Type' header missing 'application/json'"

HTTPGetAllExpenses(req) ==
    LET c == [NoCall EXCEPT !.op = "GetAllExpenses"]
        o == WithFault(GetAllExpenses, req.fault)
    IN  IF o.err # "nil"
        THEN Handled(c, o, sendErrors(NoResponse, 500, <<"database error">>))
        ELSE Handled(c, o, sendJSON(NoResponse, 200,
                 [i \in 1..Len(o.exps) |-> expenseToResponse(o.exps[i])]))

HTTPCreateExpense(req) ==
    LET b == req.body
        c == [NoCall EXCEPT !.op = "NewExpense", !.occuredAt = b.occuredAt,
                            !.description = b.description,
                            !.amount = b.amount]
        o == WithFault(NewExpense(b.occuredAt, b.description, b.amount),
                       req.fault)
        \* the deferred function, run when the handler returns or panics:
        \* r.Body.Close() and, if that fails, sendErrors
        deferred(h) ==
            IF req.closeErr
            THEN [h EXCEPT !.response = sendErrors(@, 500, <<>>)]
            ELSE h
    IN  IF ~headersAreValid(req)
        THEN Refused(sendErrors(NoResponse, 400, <<ContentTypeIssue>>))
        ELSE IF b.kind = "garbage"
        THEN Refused(sendErrors(NoResponse, 400, <<"unable to decode body">>))
        ELSE deferred(
            IF b.kind = "null"
            \* reqBody is a nil *CreateExpenseRequest; validate reads c.Amount
            THEN Refused(Panicked)
            ELSE IF validateCreate(b) # <<>>
            THEN Refused(sendErrors(NoResponse, 400, validateCreate(b)))
            ELSE IF o.err \in {"ErrInvalidOccuredAtTime",
                               "ErrInvalidDescription", "ErrInvalidAmount"}
            THEN Handled(c, o, sendErrors(NoResponse, 400, <<ErrorText(o)>>))
            ELSE IF o.err # "nil"
            THEN Handled(c, o, sendErrors(NoResponse, 500, <<>>))
            ELSE Handled(c, o, sendJSON(NoResponse, 201,
                                        expenseToResponse(o.exp[1]))))

HTTPGetExpenseByID(req) ==
    LET v == validateID(req.id)
        c == [NoCall EXCEPT !.op = "GetExpenseByID", !.id = v.id]
        o == WithFault(GetExpenseByID(v.id), req.fault)
    IN  IF v.err # "nil"
        THEN Refused(sendErrors(NoResponse, 400, <<v.err>>))
        ELSE IF o.err = "ErrInvalidID"
        THEN Handled(c, o, sendErrors(NoResponse, 400, <<ErrorText(o)>>))
        ELSE IF o.err \in {"ErrUnusedID", "sql.ErrNoRows"}
        THEN Handled(c, o, sendErrors(NoResponse, 404, <<ErrorText(o)>>))
        ELSE IF o.err # "nil"
        THEN Handled(c, o, sendErrors(NoResponse, 500, <<>>))
        ELSE Handled(c, o, sendJSON(NoResponse, 200,
                                    expenseToResponse(o.exp[1])))

HTTPUpdateExpense(req) ==
    LET b == IF req.body.kind = "null" THEN ZeroBody ELSE req.body
        c == [NoCall EXCEPT !.op = "UpdateExpense", !.id = b.id,
                            !.occuredAt = b.occuredAt,
                            !.description = b.description,
                            !.amount = b.amount]
        o == WithFault(UpdateExpense(b.id, b.occuredAt, b.description,
                                     b.amount), req.fault)
        \* the deferred function: r.Body.Close() and, if that fails,
        \* sendErrors
        deferred(h) ==
            IF req.closeErr
            THEN [h EXCEPT !.response = sendErrors(@, 500, <<>>)]
            ELSE h
    IN  IF ~headersAreValid(req)
        THEN Refused(sendErrors(NoResponse, 400, <<ContentTypeIssue>>))
        ELSE IF b.kind = "garbage"
        THEN Refused(sendErrors(NoResponse, 400, <<"unable to decode body">>))
        ELSE deferred(
            IF validateUpdate(b) # <<>>
            THEN Refused(sendErrors(NoResponse, 400, validateUpdate(b)))
            ELSE IF o.err \in {"ErrInvalidOccuredAtTime",
                               "ErrInvalidDescription", "ErrInvalidAmount"}
            THEN Handled(c, o, sendErrors(NoResponse, 400, <<ErrorText(o)>>))
            ELSE IF o.err = "ErrUnusedID"
            \* no return after the 404: the generic error is sent as well
            THEN Handled(c, o,
                     sendErrors(sendErrors(NoResponse, 404, <<ErrorText(o)>>),
                                500, <<ErrorText(o)>>))
            ELSE IF o.err # "nil"
            THEN Handled(c, o, sendErrors(NoResponse, 500, <<ErrorText(o)>>))
            ELSE Handled(c, o, WriteHeader(NoResponse, 204)))

HTTPDeleteExpense(req) ==
    LET v == validateID(req.id)
        c == [NoCall EXCEPT !.op = "DeleteExpense", !.id = v.id]
        o == WithFault(DeleteExpense(v.id), req.fault)
    IN  IF v.err # "nil"
        THEN Refused(sendErrors(NoResponse, 400, <<v.err>>))
        ELSE IF o.err = "ErrInvalidID"
        THEN Handled(c, o, sendErrors(NoResponse, 400, <<ErrorText(o)>>))
        ELSE IF o.err = "ErrUnusedID"
        THEN Handled(c, o, sendErrors(NoResponse, 404, <<ErrorText(o)>>))
        ELSE IF o.err # "nil"
        THEN Handled(c, o, sendErrors(NoResponse, 500, <<>>))
        ELSE Handled(c, o, WriteHeader(NoResponse, 200))

\* gin's c.AbortWithStatusJSON(code, gin.H{"error": msg}) and c.JSON
AbortWithStatusJSON(code, msg) ==
    [status |-> code, body |-> <<[error |-> msg]>>, panic |-> FALSE,
     headers |-> 1]

\* c.AbortWithStatus(code), c.Status(code)
AbortWithStatus(code) ==
    [status |-> code, body |-> <<>>, panic |-> FALSE, headers |-> 1]

JSON(code, obj) ==
    [status |-> code, body |-> <<obj>>, panic |-> FALSE, headers |-> 1]

\* ginValidateID
ginValidateID(idStr) ==
    IF ~Atoi(idStr).ok THEN [id |-> 0, err |-> "strconv.NumError"]
    ELSE IF Atoi(idStr).val <= 0 THEN [id |-> 0, err |-> "handler.ErrInvalidID"]
    ELSE [id |-> Atoi(idStr).val, err |-> "nil"]

\* c.ShouldBindJSON(&reqBody) for CreateExpenseRequest: the body is decoded
\* and the binding tags are checked (OccuredAt.Time required, Description
\* required, Amount required and gt=0); "nil" or the error
ShouldBindCreate(b) ==
    IF b.kind = "garbage" THEN "json error"
    ELSE IF b.occuredAt = ZeroTime \/ b.description = "" \/ LeqZero64(b.amount)
    THEN "validator.ValidationErrors"
    ELSE "nil"

\* c.ShouldBindJSON(&reqBody) for UpdateExpenseRequest: ID required as well
ShouldBindUpdate(b) ==
    IF b.kind = "garbage" THEN "json error"
    ELSE IF b.id = 0 THEN "validator.ValidationErrors"
    ELSE ShouldBindCreate(b)

BadRequest(text) == AbortWithStatusJSON(400, <<"Bad Request: ", text>>)

InternalServerError == AbortWithStatusJSON(500, <<"Internal Server Error">>)

GinGetAllExpenses(req) ==
    LET c == [NoCall EXCEPT !.op = "GetAllExpenses"]
        o == WithFault(GetAllExpenses, req.fault)
    IN  IF o.err # "nil"
        THEN Handled(c, o, InternalServerError)
        ELSE Handled(c, o, JSON(200,
                 [i \in 1..Len(o.exps) |-> expenseToResponse(o.exps[i])]))

\* the service's answer to GetExpenseByID, as both GinHandlers send it
GinGetExpenseByIDAnswer(id, req) ==
    LET c == [NoCall EXCEPT !.op = "GetExpenseByID", !.id = id]
        o == WithFault(GetExpenseByID(id), req.fault)
    IN  IF o.err = "ErrUnusedID"
        THEN Handled(c, o, AbortWithStatusJSON(404,
                               <<"Not Found: ", ErrorText(o)>>))
        ELSE IF o.err # "nil"
        THEN Handled(c, o, AbortWithStatus(500))
        ELSE Handled(c, o, JSON(200, expenseToResponse(o.exp[1])))

GinGetExpenseByID(req) ==
    LET v == ginValidateID(req.id)
    IN  IF v.err # "nil" THEN Refused(BadRequest(v.err))
        ELSE GinGetExpenseByIDAnswer(v.id, req)

\* the GinHandler that only converts the id with strconv.Atoi
Gin0GetExpenseByID(req) ==
    IF ~Atoi(req.id).ok THEN Refused(BadRequest("strconv.NumError"))
    ELSE GinGetExpenseByIDAnswer(Atoi(req.id).val, req)

GinCreateExpense(req) ==
    LET b == IF req.body.kind = "null" THEN ZeroBody ELSE req.body
        c == [NoCall EXCEPT !.op = "NewExpense", !.occuredAt = b.occuredAt,
                            !.description = b.description,
                            !.amount = b.amount]
        o == WithFault(NewExpense(b.occuredAt, b.description, b.amount),
                       req.fault)
    IN  IF ShouldBindCreate(b) # "nil"
        THEN Refused(BadRequest(ShouldBindCreate(b)))
        ELSE IF o.err \in {"ErrInvalidAmount", "ErrInvalidOccuredAtTime"}
        THEN Handled(c, o, BadRequest(ErrorText(o)))
        ELSE IF o.err # "nil"
        THEN Handled(c, o, InternalServerError)
        ELSE Handled(c, o, JSON(201, expenseToResponse(o.exp[1])))

GinUpdateExpense(req) ==
    LET b == IF req.body.kind = "null" THEN ZeroBody ELSE req.body
        c == [NoCall EXCEPT !.op = "UpdateExpense", !.id = b.id,
                            !.occuredAt = b.occuredAt,
                            !.description = b.description,
                            !.amount = b.amount]
        o == WithFault(UpdateExpense(b.id, b.occuredAt, b.description,
                                     b.amount), req.fault)
    IN  IF ShouldBindUpdate(b) # "nil"
        THEN Refused(BadRequest(ShouldBindUpdate(b)))
        ELSE IF o.err \in {"ErrInvalidAmount", "ErrInvalidOccuredAtTime"}
        THEN Handled(c, o, BadRequest(ErrorText(o)))
        ELSE IF o.err = "ErrUnusedID"
        THEN Handled(c, o, AbortWithStatusJSON(404, <<"Not Found">>))
        ELSE IF o.err # "nil"
        THEN Handled(c, o, InternalServerError)
        ELSE Handled(c, o, AbortWithStatus(204))

\* the service's answer to DeleteExpense, as both GinHandlers send it
GinDeleteExpenseAnswer(id, req) ==
    LET c == [NoCall EXCEPT !.op = "DeleteExpense", !.id = id]
        o == WithFault(DeleteExpense(id), req.fault)
    IN  IF o.err = "ErrInvalidID"
        THEN Handled(c, o, BadRequest(ErrorText(o)))
        ELSE IF o.err = "ErrUnusedID"
        THEN Handled(c, o, AbortWithStatusJSON(404, <<"Not Found">>))
        ELSE IF o.err # "nil"
        THEN Handled(c, o, InternalServerError)
        ELSE Handled(c, o, AbortWithStatus(204))

GinDeleteExpense(req) ==
    LET v == ginValidateID(req.id)
    IN  IF v.err # "nil" THEN Refused(BadRequest(v.err))
        ELSE GinDeleteExpenseAnswer(v.id, req)

Gin0DeleteExpense(req) ==
    IF ~Atoi(req.id).ok THEN Refused(BadRequest("strconv.NumError"))
    ELSE GinDeleteExpenseAnswer(Atoi(req.id).val, req)

\* the handler named h serving the request req
Handle(h, req) ==
    CASE h = "HTTP.GetAllExpenses" -> HTTPGetAllExpenses(req)
      [] h = "HTTP.CreateExpense" -> HTTPCreateExpense(req)
      [] h = "HTTP.GetExpenseByID" -> HTTPGetExpenseByID(req)
      [] h = "HTTP.UpdateExpense" -> HTTPUpdateExpense(req)
      [] h = "HTTP.DeleteExpense" -> HTTPDeleteExpense(req)
      [] h = "Gin.GetAllExpenses" -> GinGetAllExpenses(req)
      [] h = "Gin.CreateExpense" -> GinCreateExpense(req)
      [] h = "Gin.UpdateExpense" -> GinUpdateExpense(req)
      [] h = "Gin.GetExpenseByID" -> GinGetExpenseByID(req)
      [] h = "Gin.DeleteExpense" -> GinDeleteExpense(req)
      [] h = "Gin0.GetExpenseByID" -> Gin0GetExpenseByID(req)
      [] h = "Gin0.DeleteExpense" -> Gin0DeleteExpense(req)

(***************************************************************************)
(* Requests.                                                               *)
(***************************************************************************)
DigitChar(n) == CHOOSE c \in DOMAIN DigitValue : DigitValue[c] = n

\* "", "x", "-1", "0", "1", ...
PathIDInputs ==
    {<<>>, <<"x">>, <<"-", "1">>} \cup {<<DigitChar(n)>> : n \in 0..(MaxID + 1)}

\* the storage errors a repository call may fail with: none, or one of two
\* that differ in their text only
FaultInputs == {<<>>, <<"disk I/O error">>, <<"database is locked">>}

ObjectInputs ==
    [kind : {"object"}, id : (0 - 1)..(MaxID + 1),
     amount : {Zero64, I64(1)},
     occuredAt : {ZeroTime, unixEpoch, Unix(1, 0)},
     description : {"", "a"}]

BodyInputs ==
    {[ZeroBody EXCEPT !.kind = "garbage"], [ZeroBody EXCEPT !.kind = "null"]}
    \cup ObjectInputs

Request(id, json, body, fault) ==
    [id |-> id, json |-> json, body |-> body, fault |-> fault,
     closeErr |-> FALSE]

\* a request with neither path parameter nor body
PlainRequests == {Request(<<>>, TRUE, ZeroBody, f) : f \in FaultInputs}

\* a request with the path parameter id
PathRequests ==
    {Request(id, TRUE, ZeroBody, f) : id \in PathIDInputs, f \in FaultInputs}

\* a request with a body; POST bodies carry no id
BodyRequests ==
    {Request(<<>>, json, b, f) :
        json \in BOOLEAN, b \in BodyInputs, f \in FaultInputs}

PostRequests == {req \in BodyRequests : req.body.id = 0}

\* The step of the handler h serving req.
Serve(h, req) ==
    LET r == Handle(h, req)
    IN  Perform([r.c EXCEPT !.handler = h, !.request = req,
                            !.response = r.response], r.o)

ServeHTTPGetAllExpenses ==
    \E req \in PlainRequests : Serve("HTTP.GetAllExpenses", req)

\* the net/http handlers that read a body close it, which may fail
ServeHTTPCreateExpense ==
    \E req \in PostRequests, closeErr \in BOOLEAN :
        Serve("HTTP.CreateExpense", [req EXCEPT !.closeErr = closeErr])

ServeHTTPGetExpenseByID ==
    \E req \in PathRequests : Serve("HTTP.GetExpenseByID", req)

ServeHTTPUpdateExpense ==
    \E req \in BodyRequests, closeErr \in BOOLEAN :
        Serve("HTTP.UpdateExpense", [req EXCEPT !.closeErr = closeErr])

ServeHTTPDeleteExpense ==
    \E req \in PathRequests : Serve("HTTP.DeleteExpense", req)

ServeGinGetAllExpenses ==
    \E req \in PlainRequests : Serve("Gin.GetAllExpenses", req)

ServeGinCreateExpense ==
    \E req \in PostRequests : Serve("Gin.CreateExpense", req)

ServeGinUpdateExpense ==
    \E req \in BodyRequests : Serve("Gin.UpdateExpense", req)

ServeGinGetExpenseByID ==
    \E req \in PathRequests : Serve("Gin.GetExpenseByID", req)

ServeGinDeleteExpense ==
    \E req \in PathRequests : Serve("Gin.DeleteExpense", req)

ServeGin0GetExpenseByID ==
    \E req \in PathRequests : Serve("Gin0.GetExpenseByID", req)

ServeGin0DeleteExpense ==
    \E req \in PathRequests : Serve("Gin0.DeleteExpense", req)

NextHTTP ==
    \/ ServeHTTPGetAllExpenses
    \/ ServeHTTPCreateExpense
    \/ ServeHTTPGetExpenseByID
    \/ ServeHTTPUpdateExpense
    \/ ServeHTTPDeleteExpense
    \/ ServeGinGetAllExpenses
    \/ ServeGinCreateExpense
    \/ ServeGinUpdateExpense
    \/ ServeGinGetExpenseByID
    \/ ServeGinDeleteExpense
    \/ ServeGin0GetExpenseByID
    \/ ServeGin0DeleteExpense
    \/ Return

SpecHTTP == Init /\ [][NextHTTP]_vars

(***************************************************************************)
(* SpecWire: the timestamps of the wire format.  RFC3339Time wraps a       *)
(* time.Time; such a value is kept here as [day, sod, off, nsec]: the      *)
(* instant's day and second of day (UTC), the offset of its location and   *)
(* the nanoseconds within the second.  JSON texts are sequences of         *)
(* one-character strings.                                                  *)
(***************************************************************************)
\* Proleptic Gregorian date of a day number: <<year, month, day>>.
Civil(days) ==
    LET z   == days + 719468
        era == z \div 146097
        doe == z - era * 146097
        yoe == (doe - (doe \div 1460) + (doe \div 36524) - (doe \div 146096)) \div 365
        doy == doe - (365 * yoe + (yoe \div 4) - (yoe \div 100))
        mp  == (5 * doy + 2) \div 153
        m   == IF mp < 10 THEN mp + 3 ELSE mp - 9
    IN  <<yoe + era * 400 + (IF m <= 2 THEN 1 ELSE 0), m,
          doy - ((153 * mp + 2) \div 5) + 1>>

\* The day number of a date, counted from 1970-01-01.
DaysFromCivil(year, month, day) ==
    LET y   == IF month <= 2 THEN year - 1 ELSE year
        era == y \div 400
        yoe == y - era * 400
        mp  == IF month > 2 THEN month - 3 ELSE month + 9
        doy == ((153 * mp + 2) \div 5) + day - 1
        doe == yoe * 365 + (yoe \div 4) - (yoe \div 100) + doy
    IN  era * 146097 + doe - 719468

RECURSIVE appendInt(_, _)
\* the decimal digits of x >= 0, padded with zeros to at least width digits
appendInt(x, width) ==
    IF x < 10 /\ width <= 1 THEN <<DigitChar(x)>>
    ELSE Append(appendInt(x \div 10, width - 1), DigitChar(x % 10))

\* t.Format(time.RFC3339), layout "2006-01-02T15:04:05Z07:00": the date and
\* the time of day in the location of t, to the second, and the offset of
\* the location in hours and minutes, "Z" for the offset 0
Format(t) ==
    LET local == t.sod + t.off
        date  == Civil(t.day + (local \div SecondsPerDay))
        clock == local % SecondsPerDay
        abs   == IF t.off < 0 THEN 0 - t.off ELSE t.off
        zone  == abs \div 60
    IN  (IF date[1] < 0 THEN <<"-">> \o appendInt(0 - date[1], 4)
         ELSE appendInt(date[1], 4))
        \o <<"-">> \o appendInt(date[2], 2)
        \o <<"-">> \o appendInt(date[3], 2)
        \o <<"T">> \o appendInt(clock \div 3600, 2)
        \o <<":">> \o appendInt((clock \div 60) % 60, 2)
        \o <<":">> \o appendInt(clock % 60, 2)
        \o (IF t.off = 0 THEN <<"Z">>
            ELSE <<IF t.off < 0 THEN "-" ELSE "+">>
                 \o appendInt(zone \div 60, 2) \o <<":">>
                 \o appendInt(zone % 60, 2))

\* time.Parse(time.RFC3339, s): four digits of year, the date and the time
\* of day, an optional fraction of the second, and "Z" or an offset in
\* hours and minutes; the fields must be in range
Parse(s) ==
    LET num(i, j) == DigitsValue(SubSeq(s, i, j), 0)
        isNum(i, j) == j <= Len(s) /\ AllDigits(SubSeq(s, i, j))
        is(i, c) == i <= Len(s) /\ s[i] = c
        fracEnd ==
            IF ~is(20, ".") THEN 19
            ELSE CHOOSE j \in 20..Len(s) :
                    /\ \A k \in 21..j : s[k] \in DOMAIN DigitValue
                    /\ (j = Len(s) \/ s[j + 1] \notin DOMAIN DigitValue)
        fracLen == fracEnd - 20
        nsec == IF fracLen <= 0 THEN 0
                ELSE IF fracLen >= 9 THEN num(21, 29)
                ELSE num(21, fracEnd) * 10 ^ (9 - fracLen)
        z == fracEnd + 1
        utc == is(z, "Z") /\ Len(s) = z
        shifted ==
            /\ Len(s) = z + 5
            /\ s[z] \in {"+", "-"}
            /\ isNum(z + 1, z + 2) /\ is(z + 3, ":") /\ isNum(z + 4, z + 5)
            /\ num(z + 1, z + 2) < 24 /\ num(z + 4, z + 5) < 60
        off == IF utc THEN 0
               ELSE (IF s[z] = "-" THEN 0 - 1 ELSE 1)
                    * (num(z + 1, z + 2) * 3600 + num(z + 4, z + 5) * 60)
        wellFormed ==
            /\ isNum(1, 4) /\ is(5, "-") /\ isNum(6, 7) /\ is(8, "-")
            /\ isNum(9, 10) /\ is(11, "T") /\ isNum(12, 13) /\ is(14, ":")
            /\ isNum(15, 16) /\ is(17, ":") /\ isNum(18, 19)
            /\ (is(20, ".") => fracLen >= 1)
            /\ (utc \/ shifted)
            /\ num(6, 7) \in 1..12 /\ num(9, 10) >= 1
            /\ Civil(DaysFromCivil(num(1, 4), num(6, 7), num(9, 10)))
                 = <<num(1, 4), num(6, 7), num(9, 10)>>
            /\ num(12, 13) < 24 /\ num(15, 16) < 60 /\ num(18, 19) < 60
        clock == num(12, 13) * 3600 + num(15, 16) * 60 + num(18, 19) - off
    IN  IF ~wellFormed THEN [ok |-> FALSE, t |-> <<>>]
        ELSE [ok |-> TRUE,
              t  |-> <<[day |-> DaysFromCivil(num(1, 4), num(6, 7), num(9, 10))
                                  + (clock \div SecondsPerDay),
                        sod |-> clock % SecondsPerDay,
                        off |-> off, nsec |-> nsec]>>]

\* RFC3339Time.MarshalJSON: the formatted time as a JSON string
MarshalJSON(t) == <<"\"">> \o Format(t) \o <<"\"">>

\* RFC3339Time.UnmarshalJSON: the bytes must be a JSON string that parses
UnmarshalJSON(b) ==
    IF Len(b) >= 2 /\ b[1] = "\"" /\ b[Len(b)] = "\""
    THEN Parse(SubSeq(b, 2, Len(b) - 1))
    ELSE [ok |-> FALSE, t |-> <<>>]

\* The timestamps handed to MarshalJSON: 1969-12-31, 1970-01-01,
\* 2024-02-29, 2025-10-15, 9999-12-31 and time.Time{}; midnight, 12:34:56
\* and 23:59:59; UTC, +01:00, -05:00, +05:30 and the local mean time
\* +00:19:32; whole seconds and not.
WireTimeInputs ==
    [day  : {0 - 1, 0, 19782, 20376, 2932896, ZeroTime.day},
     sod  : {0, 45296, SecondsPerDay - 1},
     off  : {0, 3600, 0 - 18000, 19800, 1172},
     nsec : {0, 1, 999999999}]

\* json.Marshal of a response meets the timestamp t
WireMarshalJSON ==
    /\ call.op = "none"
    /\ \E t \in WireTimeInputs :
         call' = [NoCall EXCEPT !.op = "MarshalJSON", !.request = <<t>>,
                                !.response = <<MarshalJSON(t)>>]
    /\ UNCHANGED <<lastID, db, now, coll, hist, assigned, mux, procs>>

\* the client decodes the bytes it was sent into an RFC3339Time
WireUnmarshalJSON ==
    /\ call.op = "MarshalJSON"
    /\ LET r == UnmarshalJSON(call.response[1])
       IN  call' = [call EXCEPT !.op = "UnmarshalJSON",
                                !.err = IF r.ok THEN "nil" ELSE "ParseError",
                                !.request = Append(@, call.response[1]),
                                !.response = r.t]
    /\ UNCHANGED <<lastID, db, now, coll, hist, assigned, mux, procs>>

NextWire ==
    \/ WireMarshalJSON
    \/ WireUnmarshalJSON
    \/ Return

SpecWire == Init /\ [][NextWire]_vars

(***************************************************************************)
(* SpecRepos: the MongoDBRespository next to the mockRepository.  Both are *)
(* handed the same calls; call.request holds what the mockRepository       *)
(* returned and call.response what the MongoDBRespository returned, each   *)
(* as [rec, recs, err].  A document is a record keyed by the lower-cased   *)
(* field names of mongoExpense (the struct has no bson tags); its times    *)
(* are Unix seconds, kept as <<day, second of day>>.                       *)
(***************************************************************************)
toMongoExpense(e) ==
    [id |-> e.ID, description |-> e.Description, amount |-> e.Amount,
     createdat |-> <<0, 0>>,
     occuredat |-> <<e.ExpenseOccuredAt.day, e.ExpenseOccuredAt.sod>>]

toServiceExpense(doc) ==
    Expense(doc.id, doc.amount, Time(doc.occuredat[1], doc.occuredat[2], 0),
            Time(doc.createdat[1], doc.createdat[2], 0), doc.description)

\* FindOne with the filter {"expense-id": id}, then Decode
MongoGetByID(c, id) ==
    LET hits == {i \in 1..Len(c) :
                    "expense-id" \in DOMAIN c[i] /\ c[i]["expense-id"] = id}
    IN  IF hits = {}
        THEN [coll |-> c, rec |-> <<>>, recs |-> <<>>, err |-> "ErrUnusedID"]
        ELSE [coll |-> c,
              rec |-> <<toServiceExpense(
                          c[CHOOSE i \in hits : \A j \in hits : i <= j])>>,
              recs |-> <<>>, err |-> "nil"]

MongoGetAll(c) == [coll |-> c, rec |-> <<>>, recs |-> <<>>, err |-> "nil"]

\* InsertOne of the converted record; exp is returned as it came.  A nil
\* exp is dereferenced by toMongoExpense.
MongoCreate(c, exp) ==
    IF exp = <<>>
    THEN [coll |-> c, rec |-> <<>>, recs |-> <<>>, err |-> "panic"]
    ELSE [coll |-> Append(c, toMongoExpense(exp[1])), rec |-> exp,
          recs |-> <<>>, err |-> "nil"]

MongoUpdate(c, exp) == [coll |-> c, rec |-> <<>>, recs |-> <<>>, err |-> "nil"]

MongoDelete(c, id) == [coll |-> c, rec |-> <<>>, recs |-> <<>>, err |-> "nil"]

\* One call made on both repositories: r is what the mockRepository did and
\* m what the MongoDBRespository did.
NextRepos ==
    \/ /\ call.op = "none"
       /\ \E r \in {[method |-> "Create", id |-> 0, exp |-> exp] :
                        exp \in {e \in CreateInputs : lastID < MaxID}}
                   \cup {[method |-> "Update", id |-> 0, exp |-> exp] :
                            exp \in UpdateInputs}
                   \cup {[method |-> x, id |-> id, exp |-> <<>>] :
                            x \in {"GetByID", "Delete"}, id \in 1..MaxID}
                   \cup {[method |-> "GetAll", id |-> 0, exp |-> <<>>]} :
            LET nilPointer ==
                    RepoResult(lastID, db, <<>>, <<>>, "ErrNilPointer")
                ref == CASE r.method = "Create" ->
                              IF r.exp = <<>> THEN nilPointer
                              ELSE Create(lastID, db, r.exp[1], now)
                         [] r.method = "Update" ->
                              IF r.exp = <<>> THEN nilPointer
                              ELSE Update(lastID, db, r.exp[1])
                         [] r.method = "Delete" -> Delete(lastID, db, r.id)
                         [] r.method = "GetByID" -> GetByID(lastID, db, r.id)
                         [] r.method = "GetAll" -> GetAll(lastID, db)
                m == CASE r.method = "Create" -> MongoCreate(coll, r.exp)
                       [] r.method = "Update" -> MongoUpdate(coll, r.exp)
                       [] r.method = "Delete" -> MongoDelete(coll, r.id)
                       [] r.method = "GetByID" -> MongoGetByID(coll, r.id)
                       [] r.method = "GetAll" -> MongoGetAll(coll)
            IN  /\ lastID' = ref.lastID
                /\ db' = ref.db
                /\ coll' = m.coll
                /\ call' = [NoCall EXCEPT
                              !.op = r.method, !.id = r.id, !.exp = r.exp,
                              !.known = IF r.method = "Update" /\ r.exp # <<>>
                                        THEN r.exp[1].ID \in DOMAIN db
                                        ELSE r.id \in DOMAIN db,
                              !.request = <<[rec |-> ref.rec,
                                             recs |-> ref.recs,
                                             err |-> ref.err]>>,
                              !.response = <<[rec |-> m.rec, recs |-> m.recs,
                                              err |-> m.err]>>]
       /\ UNCHANGED <<now, hist, assigned, mux, procs>>
    \/ Return

SpecRepos == Init /\ [][NextRepos]_vars

(***************************************************************************)
(* The properties.  What they say about amounts, times and sums is stated  *)
(* here on its own terms, not with the operators of the service.           *)
(***************************************************************************)
\* amount > 0
Positive64(a) == a[1] > 0 \/ (a[1] = 0 /\ (a[2] > 0 \/ a[3] > 0))

\* t is strictly after 1970-01-01T00:00:00Z
AfterEpoch(t) == t.day > 0 \/ (t.day = 0 /\ t.sod > 0)

ValidExpense(e) ==
    /\ Positive64(e.Amount)
    /\ e.Description # ""
    /\ AfterEpoch(e.ExpenseOccuredAt)

\* the error of the first rule, in the order description, amount,
\* occurredAt, that the fields of the call c violate
FirstViolation(c) ==
    IF c.description = "" THEN "ErrInvalidDescription"
    ELSE IF ~Positive64(c.amount) THEN "ErrInvalidAmount"
    ELSE IF ~AfterEpoch(c.occuredAt) THEN "ErrInvalidOccuredAtTime"
    ELSE "nil"

SameFields(e, amount, occuredAt, description) ==
    /\ e.Amount = amount
    /\ e.ExpenseOccuredAt = occuredAt
    /\ e.Description = description

\* C1: whatever NewExpense, UpdateExpense and DeleteExpense calls are made,
\* every record handed to the repository and every stored record has
\* amount > 0, a non-empty description and occurredAt after the epoch; a
\* NewExpense or UpdateExpense call whose fields break one of these rules
\* returns an error, makes no repository call and leaves the store as it was.
C1_OnlyValidRecordsReachTheStore ==
    [][/\ \A i \in 1..Len(call'.repo) :
            call'.repo[i].exp # <<>> => ValidExpense(call'.repo[i].exp[1])
       /\ \A id \in DOMAIN db' : ValidExpense(db'[id])
       /\ (call'.op \in {"NewExpense", "UpdateExpense"} /\ FirstViolation(call') # "nil")
            => /\ call'.err # "nil"
               /\ call'.repo = <<>>
               /\ db' = db
               /\ lastID' = lastID]_vars

\* C1 witness: an update of a stored record was rejected for its fields.
C1_Witness ==
    /\ call.op = "UpdateExpense"
    /\ call.known
    /\ call.err \in ValidationErrors
    /\ call.repo = <<>>
    /\ db # <<>>

\* C2 as claimed: NewExpense and UpdateExpense return, for every input, the
\* error of the first violated rule in the order description, amount,
\* occurredAt.
C2_FirstViolationForEveryInput ==
    (call.op \in {"NewExpense", "UpdateExpense"} /\ FirstViolation(call) # "nil")
        => call.err = FirstViolation(call)

\* C2, amended: NewExpense, and UpdateExpense when its id is > 0, return the
\* error of the first violated rule in the order description, amount,
\* occurredAt; UpdateExpense with id <= 0 returns InvalidID whatever its
\* fields are.
C2_ValidationOrder ==
    /\ (call.op = "NewExpense" /\ FirstViolation(call) # "nil")
         => call.err = FirstViolation(call)
    /\ (call.op = "UpdateExpense" /\ call.id > 0 /\ FirstViolation(call) # "nil")
         => call.err = FirstViolation(call)
    /\ (call.op = "UpdateExpense" /\ call.id <= 0) => call.err = "ErrInvalidID"

\* C2 witness: an update with a valid id whose description, amount and
\* occurredAt are all invalid was answered with InvalidDescription.
C2_Witness ==
    /\ call.op = "UpdateExpense"
    /\ call.id > 0
    /\ call.description = ""
    /\ ~Positive64(call.amount)
    /\ ~AfterEpoch(call.occuredAt)
    /\ call.err = "ErrInvalidDescription"

\* C3: GetExpenseByID, UpdateExpense (with valid fields) and DeleteExpense of
\* an id > 0 that names no stored record fail with the domain error UnknownID
\* (expenses.ErrUnusedID).
C3_UnknownIDForAbsentRecord ==
    /\ (call.op \in {"GetExpenseByID", "DeleteExpense"} /\ call.id > 0 /\ ~call.known)
         => call.err = "ErrUnusedID"
    /\ (call.op = "UpdateExpense" /\ call.id > 0 /\ ~call.known
          /\ FirstViolation(call) = "nil")
         => call.err = "ErrUnusedID"

\* C4: once DeleteExpense(id) has succeeded, GetExpenseByID(id) fails with
\* UnknownID.
C4_GetAfterDeleteIsUnknownID ==
    (call.op = "GetExpenseByID" /\ call.id \in DOMAIN hist
       /\ hist[call.id].state = "deleted")
        => call.err = "ErrUnusedID"

\* C5: NewExpense with valid fields succeeds and returns a record with a
\* non-zero id and the fields given; GetExpenseByID of an id that NewExpense
\* returned and that was neither updated nor deleted since succeeds and
\* returns the amount, occurredAt and description of that record.
C5_CreateThenGetRoundTrip ==
    /\ (call.op = "NewExpense" /\ FirstViolation(call) = "nil")
         => /\ call.err = "nil"
            /\ call.exp # <<>>
            /\ call.exp[1].ID # 0
            /\ SameFields(call.exp[1], call.amount, call.occuredAt,
                          call.description)
    /\ (call.op = "GetExpenseByID" /\ call.id \in DOMAIN hist
          /\ hist[call.id].state = "fresh")
         => /\ call.err = "nil"
            /\ call.exp # <<>>
            /\ call.exp[1].ID = call.id
            /\ SameFields(call.exp[1], hist[call.id].rec[1].Amount,
                          hist[call.id].rec[1].ExpenseOccuredAt,
                          hist[call.id].rec[1].Description)

\* C5 witness: the first of two records created was fetched again.
C5_Witness ==
    /\ call.op = "GetExpenseByID"
    /\ call.id = 1
    /\ Len(assigned) = 2
    /\ hist[1].state = "fresh"
    /\ call.err = "nil"

\* C6: in every interleaving of concurrent repository calls, the ids that
\* Create has assigned are positive and each is strictly greater than all
\* assigned before it (so no two are equal), deletions notwithstanding, and
\* every stored record is kept under the key equal to its id.
C6_CreateIdsIncreaseAndKeyTheStore ==
    /\ \A i \in 1..Len(assigned) : assigned[i] > 0
    /\ \A i, j \in 1..Len(assigned) : i < j => assigned[i] < assigned[j]
    /\ \A k \in DOMAIN db : db[k].ID = k

\* C6 witness: one Create has stored its record and not yet unlocked while
\* another Create is waiting for the lock.
C6_Witness ==
    \E p, q \in Procs :
        /\ p # q
        /\ At(p, "Create", "Unlock")
        /\ At(q, "Create", "Lock")
        /\ assigned # <<>>
        /\ assigned[Len(assigned)] \in DOMAIN db

\* C7: a successful UpdateExpense(id, ...) leaves the record with that id
\* holding the amount, occurredAt and description given, with its id and the
\* createdAt it got at creation, and leaves every other stored record as it
\* was.
C7_UpdateReplacesFieldsOnly ==
    [][(call.op = "none" /\ call'.op = "UpdateExpense" /\ call'.err = "nil")
        => /\ DOMAIN db' = DOMAIN db
           /\ call'.id \in DOMAIN db'
           /\ SameFields(db'[call'.id], call'.amount, call'.occuredAt,
                         call'.description)
           /\ db'[call'.id].ID = call'.id
           /\ call'.id \in DOMAIN hist
           /\ db'[call'.id].RecordCreatedAt = hist[call'.id].createdAt
           /\ \A k \in DOMAIN db \ {call'.id} : db'[k] = db[k]]_vars

\* C8: a GetAllExpenses that succeeds returns every stored record exactly
\* once, in ascending order of id.
C8_GetAllReturnsEveryRecordInOrder ==
    (call.op = "GetAllExpenses" /\ call.err = "nil")
        => /\ {call.exps[i].ID : i \in 1..Len(call.exps)} = DOMAIN db
           /\ \A i, j \in 1..Len(call.exps) :
                i < j => call.exps[i].ID < call.exps[j].ID
           /\ \A i \in 1..Len(call.exps) :
                call.exps[i] = db[call.exps[i].ID]

RECURSIVE ExactSum(_, _)
\* the mathematical sum of the amounts of the records of d with an id in ids
ExactSum(ids, d) ==
    IF ids = {} THEN Zero64
    ELSE LET k == CHOOSE x \in ids : TRUE
         IN  AddWide(d[k].Amount, ExactSum(ids \ {k}, d))

\* C9: a SummarizeExpenses of kind AllTime that succeeds returns the total
\* that is the sum of the amounts of all stored records and the label
\* "All Expenses", whatever the modifier.
C9_AllTimeSumsEverything ==
    (call.op = "SummarizeExpenses" /\ call.kind = "AllExpenses"
       /\ call.err = "nil")
        => /\ call.summary[1].SummaryTimeRange = <<"All Expenses">>
           /\ call.summary[1].Total = ExactSum(DOMAIN db, db)

\* the record e falls inside the window of the range kind: its occurredAt,
\* in UTC, is in the month or year of the current time or of the modifier
\* "<year>-<month>" or "<year>"; the other kinds have no window
InWindow(kind, modifier, e) ==
    LET at    == YearMonthOf(UTC(e.ExpenseOccuredAt))
        cur   == YearMonthOf(UTC(now))
        parts == Cut(modifier)
    IN  CASE kind = "ThisMonth" -> at.year = cur.year /\ at.month = cur.month
          [] kind = "ThisYear" -> at.year = cur.year
          [] kind = "CustomMonth" ->
                /\ at.year = Atoi(parts.before).val
                /\ at.month = Atoi(parts.after).val
          [] kind = "CustomYear" -> at.year = Atoi(modifier).val
          [] OTHER -> TRUE

\* C10: for every store content and every range kind, a SummarizeExpenses
\* that succeeds returns as total the exact arithmetic sum of the amounts of
\* the stored records inside the window, 0 when there is none.
C10_TotalIsExactSumOfWindow ==
    (call.op = "SummarizeExpenses" /\ call.err = "nil")
        => call.summary[1].Total =
             ExactSum({k \in DOMAIN db :
                          InWindow(call.kind, call.modifier, db[k])}, db)

\* the total of the summary returned is the exact sum of the amounts of the
\* stored records inside the window of the call's kind and modifier
TotalIsWindowSum ==
    call.summary[1].Total =
        ExactSum({k \in DOMAIN db : InWindow(call.kind, call.modifier, db[k])},
                 db)

\* C11: a SummarizeExpenses of kind ThisMonth that succeeds returns the label
\* "This Month" and the sum of exactly the stored records whose occurredAt,
\* in UTC, is in the year and month of the current time in UTC.
C11_ThisMonthSumsCurrentMonth ==
    (call.op = "SummarizeExpenses" /\ call.kind = "ThisMonth"
       /\ call.err = "nil")
        => /\ call.summary[1].SummaryTimeRange = <<"This Month">>
           /\ TotalIsWindowSum

\* C12: a SummarizeExpenses of kind ThisYear that succeeds returns the label
\* "This Year" and the sum of exactly the stored records whose occurredAt is
\* in the current calendar year (UTC), whatever their month.
C12_ThisYearSumsCurrentYear ==
    (call.op = "SummarizeExpenses" /\ call.kind = "ThisYear"
       /\ call.err = "nil")
        => /\ call.summary[1].SummaryTimeRange = <<"This Year">>
           /\ TotalIsWindowSum

\* the year and month a modifier "<year>-<month>" names
ModifierYear(modifier) == Atoi(Cut(modifier).before).val

ModifierMonth(modifier) == Atoi(Cut(modifier).after).val

\* the modifier is "<year>-<month>" with two integers and a month in 1..12
WellFormedMonth(modifier) ==
    /\ Cut(modifier).found
    /\ Atoi(Cut(modifier).before).ok
    /\ Atoi(Cut(modifier).after).ok
    /\ ModifierMonth(modifier) \in 1..12

\* C13: a SummarizeExpenses of kind CustomMonth with a modifier
\* "<year>-<month>" (month in 1..12, year not before 1970) that succeeds
\* returns the sum of exactly the stored records of that year and month and
\* the label "Custom Month: <MonthName> of <Year>"; "2025-10" gives the sum of
\* the records of October 2025 and "Custom Month: October of 2025".
C13_CustomMonthSumsNamedMonth ==
    (call.op = "SummarizeExpenses" /\ call.kind = "CustomMonth"
       /\ WellFormedMonth(call.modifier) /\ ModifierYear(call.modifier) >= 1970
       /\ call.err = "nil")
        => /\ call.summary[1].SummaryTimeRange =
                <<"Custom Month: ", MonthName[ModifierMonth(call.modifier)],
                  " of ", ModifierYear(call.modifier)>>
           /\ TotalIsWindowSum

\* the call failed with InvalidTimeRange (expenses.ErrInvalidTime) carrying
\* the modifier given, and returned no summary
FailedWithInvalidTimeRange ==
    /\ call.err = "ErrInvalidTime"
    /\ call.errArg = call.modifier
    /\ call.summary = <<>>

\* C14: SummarizeExpenses of kind CustomMonth with a modifier that is not
\* "<year>-<month>" or whose month is outside 1..12, and of kind CustomYear
\* with a modifier that is not an integer, fails with InvalidTimeRange
\* carrying the modifier, and returns no summary.
C14_MalformedModifierIsInvalidTimeRange ==
    (/\ call.op = "SummarizeExpenses"
     /\ \/ call.kind = "CustomMonth" /\ ~WellFormedMonth(call.modifier)
        \/ call.kind = "CustomYear" /\ ~Atoi(call.modifier).ok)
        => FailedWithInvalidTimeRange

\* C15: SummarizeExpenses of kind CustomYear with an integer modifier below
\* 1970, and of kind CustomMonth with a well-formed modifier whose year is
\* below 1970, fails with InvalidTimeRange carrying the modifier.
C15_PreEpochModifierIsInvalidTimeRange ==
    (/\ call.op = "SummarizeExpenses"
     /\ \/ /\ call.kind = "CustomYear"
           /\ Atoi(call.modifier).ok
           /\ Atoi(call.modifier).val < 1970
        \/ /\ call.kind = "CustomMonth"
           /\ WellFormedMonth(call.modifier)
           /\ ModifierYear(call.modifier) < 1970)
        => FailedWithInvalidTimeRange

\* C16: a SummarizeExpenses of kind CustomYear with an integer modifier
\* y >= 1970 that succeeds returns the label "Custom Year: <y>" and the sum
\* of exactly the stored records whose occurredAt is in year y, the first
\* instant of the year included.
C16_CustomYearSumsNamedYear ==
    (call.op = "SummarizeExpenses" /\ call.kind = "CustomYear"
       /\ Atoi(call.modifier).ok /\ Atoi(call.modifier).val >= 1970
       /\ call.err = "nil")
        => /\ call.summary[1].SummaryTimeRange =
                <<"Custom Year: ", Atoi(call.modifier).val>>
           /\ TotalIsWindowSum

\* C17: GetExpenseByID and DeleteExpense with an id <= 0, and UpdateExpense
\* with an id <= 0 and valid fields, fail with InvalidID, make no repository
\* call and leave the store as it was.
C17_InvalidIDIsRejectedBeforeTheRepository ==
    [][(/\ call.op = "none"
        /\ call'.id <= 0
        /\ \/ call'.op \in {"GetExpenseByID", "DeleteExpense"}
           \/ call'.op = "UpdateExpense" /\ FirstViolation(call') = "nil")
        => /\ call'.err = "ErrInvalidID"
           /\ call'.exp = <<>>
           /\ call'.repo = <<>>
           /\ db' = db
           /\ lastID' = lastID]_vars

\* C17 witness: a DeleteExpense with a negative id was rejected while records
\* were stored.
C17_Witness ==
    /\ call.op = "DeleteExpense"
    /\ call.id < 0
    /\ call.err = "ErrInvalidID"
    /\ call.repo = <<>>
    /\ db # <<>>

\* the handlers of each endpoint
CreateHandlers == {"HTTP.CreateExpense", "Gin.CreateExpense"}

UpdateHandlers == {"HTTP.UpdateExpense", "Gin.UpdateExpense"}

ByIDHandlers ==
    {"HTTP.GetExpenseByID", "Gin.GetExpenseByID", "Gin0.GetExpenseByID",
     "HTTP.DeleteExpense", "Gin.DeleteExpense", "Gin0.DeleteExpense"}

\* the body is no object, or a field of it breaks a rule of the service
InvalidFields(b) ==
    \/ b.kind # "object"
    \/ b.description = ""
    \/ ~Positive64(b.amount)
    \/ ~AfterEpoch(b.occuredAt)

\* the input of the request req fails validation at the handler h
FailsValidation(h, req) ==
    \/ h \in ByIDHandlers /\ (~Atoi(req.id).ok \/ Atoi(req.id).val <= 0)
    \/ h \in CreateHandlers /\ InvalidFields(req.body)
    \/ h \in UpdateHandlers /\ (InvalidFields(req.body) \/ req.body.id <= 0)

\* C18: in every handler for create, get-by-id, update and delete, a request
\* whose input fails validation (a malformed or non-positive id, an
\* undecodable or empty body, an empty description, an amount <= 0, a
\* missing or pre-epoch occurredAt) gets a 400-class response.
C18_ValidationFailureIs400 ==
    (call.handler # "none" /\ FailsValidation(call.handler, call.request))
        => call.response.status \in 400..499

\* C19: a get-by-id, update or delete request with valid input that names
\* an id > 0 with no stored record, served without a storage failure, gets
\* a 404-class response.
C19_UnknownIDIs404 ==
    (/\ call.handler \in ByIDHandlers \cup UpdateHandlers
     /\ call.op \in {"GetExpenseByID", "UpdateExpense", "DeleteExpense"}
     /\ ~FailsValidation(call.handler, call.request)
     /\ call.request.fault = <<>>
     /\ call.id > 0
     /\ ~call.known)
        => call.response.status \in {404}

\* C20: when the service returns a storage error, the handler answers with a
\* 500-class response, and the same request served with a storage error of
\* any other text gets the identical response.
C20_StorageErrorIsOpaque500 ==
    [][(call.op = "none" /\ call'.handler # "none" /\ call'.err = "QueryError")
        => /\ call'.response.status \in 500..599
           /\ \A f \in FaultInputs \ {<<>>} :
                Handle(call'.handler,
                       [call'.request EXCEPT !.fault = f]).response
                  = call'.response]_vars

\* C21: the net/http CreateExpense and UpdateExpense handlers check the
\* Content-Type header first: a request whose Content-Type does not hold
\* "application/json" gets 400 with the one issue of the header, whatever its
\* body is, the service is not called and the store is unchanged.
C21_ContentTypeIsCheckedFirst ==
    [][(/\ call.op = "none"
        /\ call'.handler \in {"HTTP.CreateExpense", "HTTP.UpdateExpense"}
        /\ ~call'.request.json)
        => /\ call'.response.status = 400
           /\ call'.response.body
                = <<[code |-> 400, issues |-> <<ContentTypeIssue>>]>>
           /\ call'.op = "NoServiceCall"
           /\ call'.repo = <<>>
           /\ db' = db
           /\ lastID' = lastID]_vars

\* a request of the wrong Content-Type whose body would have updated a
\* stored record has been refused
C21_Witness ==
    /\ call.handler = "HTTP.UpdateExpense"
    /\ ~call.request.json
    /\ call.request.body.kind = "object"
    /\ validateUpdate(call.request.body) = <<>>
    /\ call.request.body.id \in DOMAIN db
    /\ call.request.fault = <<>>
    /\ call.response.status = 400

\* C22: in the in-memory store every read of the shared state (the record
\* map and lastID) is made by a goroutine that holds the read or the write
\* lock and every write by one that holds the write lock, so that no
\* goroutine is about to write a field that another is about to read or
\* write.
C22_SharedStateIsAccessedUnderTheLock ==
    \A p \in Procs :
        /\ Accesses(p).reads # {} => HoldsRLock(p) \/ HoldsLock(p)
        /\ Accesses(p).writes # {} => HoldsLock(p)
        /\ \A q \in Procs \ {p} :
             Accesses(p).writes
                \cap (Accesses(q).reads \cup Accesses(q).writes) = {}

\* C23: under fair scheduling every repository operation that a goroutine
\* has started on the in-memory store completes, whatever the other
\* goroutines run, and a goroutine that has returned, with or without an
\* error, holds neither the write lock nor the read lock.
C23_EveryOperationCompletes ==
    /\ [](\A p \in Procs :
            procs[p].op = "none" => mux.writer # p /\ p \notin mux.readers)
    /\ \A p \in Procs : (procs[p].op # "none") ~> (procs[p].op = "none")

\* an Update that failed is about to return with the write lock held while
\* another goroutine waits for the lock
C23_Witness ==
    \E p, q \in Procs :
        /\ p # q
        /\ At(p, "Update", "Unlock")
        /\ procs[p].err # "nil"
        /\ HoldsLock(p)
        /\ procs[q].pc \in {"Lock", "RLock"}

\* C24: the wire format of timestamps round-trips: unmarshalling the JSON
\* that MarshalJSON produced for a timestamp t succeeds and yields a
\* timestamp of the same instant as t.
C24_WireTimestampRoundTrips ==
    call.op = "UnmarshalJSON"
        => /\ call.err = "nil"
           /\ call.response # <<>>
           /\ call.response[1].day = call.request[1].day
           /\ call.response[1].sod = call.request[1].sod
           /\ call.response[1].nsec = call.request[1].nsec

\* what kind of error a repository returned
ErrorKind(err) ==
    CASE err = "nil" -> "none"
      [] err \in {"sql.ErrNoRows", "ErrUnusedID", "ErrNoRowsUpdated",
                  "ErrNoRowsDeleted"} -> "not-found"
      [] err = "ErrNilPointer" -> "invalid-input"
      [] OTHER -> err

\* the same record, with a createdAt that has been set
SameRecord(a, b) ==
    /\ a.ID = b.ID
    /\ a.Amount = b.Amount
    /\ a.Description = b.Description
    /\ a.ExpenseOccuredAt.day = b.ExpenseOccuredAt.day
    /\ a.ExpenseOccuredAt.sod = b.ExpenseOccuredAt.sod
    /\ (a.RecordCreatedAt = ZeroTime) = (b.RecordCreatedAt = ZeroTime)

\* C25: handed the same sequence of Create, GetByID, GetAll, Update and
\* Delete calls, the MongoDB repository returns from every call the same
\* records and the same kind of error as the in-memory repository: Create a
\* record with a new positive id and a createdAt, GetByID the created
\* record, Update and Delete of an absent id not-found.
C25_MongoDBAnswersAsTheInMemoryRepository ==
    call.op \in {"Create", "GetByID", "GetAll", "Update", "Delete"}
        => LET ref == call.request[1]
               m   == call.response[1]
           IN  /\ ErrorKind(m.err) = ErrorKind(ref.err)
               /\ Len(m.rec) = Len(ref.rec)
               /\ \A i \in 1..Len(m.rec) : SameRecord(m.rec[i], ref.rec[i])
               /\ Len(m.recs) = Len(ref.recs)
               /\ \A i \in 1..Len(m.recs) : SameRecord(m.recs[i], ref.recs[i])
               /\ (call.op = "Create" /\ m.err = "nil")
                    => m.rec[1].ID > 0 /\ m.rec[1].RecordCreatedAt # ZeroTime
               /\ (/\ call.op = "Delete" \/ (call.op = "Update" /\ call.exp # <<>>)
                   /\ ~call.known) => ErrorKind(m.err) = "not-found"

\* C26: GetExpenseByID, GetAllExpenses and SummarizeExpenses of every range
\* kind leave every stored record and the id counter as they were, and a
\* GetExpenseByID repeated right after one returns the same data.
C26_ReadsLeaveTheStoreUnchanged ==
    [][(/\ call.op = "none"
        /\ call'.op \in {"GetExpenseByID", "GetAllExpenses",
                         "SummarizeExpenses"})
        => /\ db' = db
           /\ lastID' = lastID
           /\ call'.op = "GetExpenseByID"
                => \E id \in {call'.id} :
                      /\ GetExpenseByID(id)'.err = call'.err
                      /\ GetExpenseByID(id)'.exp = call'.exp
                      /\ GetExpenseByID(id)'.db = db]_vars

\* a summary of this month has left out a stored record of another month
C26_Witness ==
    /\ call.op = "SummarizeExpenses"
    /\ call.kind = "ThisMonth"
    /\ call.err = "nil"
    /\ \E id \in DOMAIN db :
         /\ id < lastID
         /\ YearMonthOf(db[id].ExpenseOccuredAt) # YearMonthOf(UTC(now))

\* C27: a repository operation that returns an error leaves the records and
\* the id counter as they were: Create of a nil record fails with the
\* invalid-input error and takes no id, Update and Delete of an id that has
\* no record (also one that was deleted before) fail with not-found.
C27_FailedOperationChangesNothing ==
    [][(/\ call.op = "none"
        /\ call'.op \in {"Create", "GetByID", "GetAll", "Update", "Delete"})
        => /\ call'.request[1].err # "nil" => db' = db /\ lastID' = lastID
           /\ call'.response[1].err # "nil" => coll' = coll
           /\ (call'.op \in {"Create", "Update"} /\ call'.exp = <<>>)
                => ErrorKind(call'.request[1].err) = "invalid-input"
           /\ (/\ call'.op = "Delete"
                  \/ (call'.op = "Update" /\ call'.exp # <<>>)
               /\ ~call'.known)
                => ErrorKind(call'.request[1].err) = "not-found"]_vars

\* a Delete of an id whose record was deleted before has failed, with
\* another record in the repository
C27_Witness ==
    /\ call.op = "Delete"
    /\ call.id <= lastID
    /\ call.id \notin DOMAIN db
    /\ ~call.known
    /\ call.request[1].err = "ErrNoRowsDeleted"
    /\ db # <<>>

\* the handlers on net/http
HTTPHandlers ==
    {"HTTP.GetAllExpenses", "HTTP.CreateExpense", "HTTP.GetExpenseByID",
     "HTTP.UpdateExpense", "HTTP.DeleteExpense"}

\* C28: every invocation of a net/http handler writes exactly one response:
\* WriteHeader is called once and at most one body is written, on every
\* path.
C28_ExactlyOneResponse ==
    call.handler \in HTTPHandlers
        => /\ call.response.headers = 1
           /\ Len(call.response.body) <= 1

\* C29: for every request body that decodes without error, the JSON literal
\* null included, the net/http CreateExpense handler does not panic on an
\* unset request value and answers 201, 400 or 500.
C29_CreateExpenseAnswersEveryDecodedBody ==
    (/\ call.handler = "HTTP.CreateExpense"
     /\ call.request.json
     /\ call.request.body.kind \in {"null", "object"})
        => /\ ~call.response.panic
           /\ call.response.status \in {201, 400, 500}

\* C30: on a repository that holds no records, whether none was ever created
\* or every created record has been deleted, GetAllExpenses succeeds with an
\* empty list and SummarizeExpenses with a modifier that fits its kind
\* succeeds with the total 0.
C30_EmptyStoreAnswersTheSameWhateverItsHistory ==
    /\ (db = <<>> /\ call.op = "GetAllExpenses")
         => call.err = "nil" /\ call.exps = <<>>
    /\ (/\ db = <<>>
        /\ call.op = "SummarizeExpenses"
        /\ call.kind = "CustomMonth"
             => WellFormedMonth(call.modifier)
                  /\ ModifierYear(call.modifier) >= 1970
        /\ call.kind = "CustomYear"
             => Atoi(call.modifier).ok /\ Atoi(call.modifier).val >= 1970)
         => /\ call.err = "nil"
            /\ call.summary # <<>>
            /\ call.summary[1].Total = Zero64

====
